---- MODULE Spec2Model ----
(***************************************************************************)
(* A model of the disk cache of libs/cache (src/libs/cache/src/disk.rs):   *)
(* the root manifest Cache.toml, the per-bucket item manifests             *)
(* CacheItem.toml, the value files, the advisory locks taken on them by    *)
(* WriteLockedFile / ReadLockedFile, and DiskCache::new / generate /       *)
(* check_existing_item run by several callers that share one cache root.   *)
(*                                                                         *)
(* A file's content is a sequence of tokens.  A token is a tuple whose     *)
(* first element is a tag: <<"items">> and <<"id", i>> spell a root        *)
(* manifest, <<"values">> and <<"kv", k, status>> an item manifest,        *)
(* <<"val", v>> a binary payload, <<"junk">> is text that is no TOML and   *)
(* <<"bad">> is a byte sequence that is not UTF-8.                         *)
(***************************************************************************)
EXTENDS Naturals, Sequences, FiniteSets, TLC

VARIABLES
    dirs,       \* the bucket directories that exist under the root
    files,      \* path -> [exists, content]
    xlock,      \* path -> the callers holding the exclusive lock (none or one)
    slock,      \* path -> the callers holding a shared lock
    pc,         \* caller -> its position in new / generate / check_existing_item
    arg,        \* caller -> [id, key] of the generate call in progress
    mdata,      \* caller -> `data` of generate (ManifestData.items)
    idata,      \* caller -> `data` of check_existing_item (ItemManifestData.values)
    found,      \* caller -> the arm of the match on data.values.entry(key_hash)
    calls,      \* the generate calls made so far, with their outcome and handle
    genRuns,    \* value path -> how often generate_fn was invoked for it
    yesSince,   \* value path -> Generate::Yes answers since its entry was last
                \* evicted (or its manifest last corrupted) by the environment
    callsLeft,  \* how many more generate calls the callers make
    envLeft     \* how many more times the environment touches the disk

vars == <<dirs, files, xlock, slock, pc, arg, mdata, idata, found, calls,
          genRuns, yesSince, callsLeft, envLeft>>

----------------------------------------------------------------------------
(* Bounds of the model. *)

NumProcs == 2
MaxCalls == 2
MaxEnvCalls == 3
MaxGarbage == 3
MaxEnv == 1
MaxReadCalls == 2
MaxFaultCalls == 1
MaxFaults == 1

----------------------------------------------------------------------------
(* Callers, identifiers, keys and paths. *)

Procs == 1..NumProcs

Ids == {"a", "b"}
Keys == {"k1", "k2"}

MANIFEST_NAME == "Cache.toml"
ITEM_MANIFEST_NAME == "CacheItem.toml"

\* Sha256 of the serialized object, hex encoded: distinct objects, distinct digests.
hash_serialize(obj) ==
    CASE obj = "a" -> "d_a"
      [] obj = "b" -> "d_b"
      [] obj = "k1" -> "d_k1"
      [] obj = "k2" -> "d_k2"

Buckets == {hash_serialize(i) : i \in Ids}
KeyHashes == {hash_serialize(k) : k \in Keys}

manifest_path == <<MANIFEST_NAME>>
item_manifest_path(id) == <<hash_serialize(id), ITEM_MANIFEST_NAME>>
value_path(id, key) == <<hash_serialize(id), hash_serialize(key)>>

ManifestPaths == {manifest_path} \cup {item_manifest_path(i) : i \in Ids}
ValuePaths == {value_path(i, k) : i \in Ids, k \in Keys}
Paths == ManifestPaths \cup ValuePaths

ValueStatus == {"Loading", "InUse", "Evicting"}

----------------------------------------------------------------------------
(* Encodings. *)

Perms(S) ==
    {s \in [1..Cardinality(S) -> S] :
        \A i, j \in 1..Cardinality(S) : i # j => s[i] # s[j]}

\* toml::to_string of a ManifestData: the set is written in HashSet order.
TomlManifest(items) ==
    {<<<<"items">>>> \o [n \in 1..Len(s) |-> <<"id", s[n]>>] : s \in Perms(items)}

\* toml::to_string of an ItemManifestData: the map is written in HashMap order.
TomlItemManifest(values) ==
    {<<<<"values">>>> \o [n \in 1..Len(s) |-> <<"kv", s[n][1], s[n][2]>>] :
        s \in Perms(values)}

\* read_to_string fails on content that is not UTF-8.
Utf8(content) == \A n \in 1..Len(content) : content[n] # <<"bad">>

\* toml::from_str::<ManifestData>(..).ok()
FromTomlManifest(content) ==
    IF /\ Len(content) >= 1
       /\ content[1] = <<"items">>
       /\ \A n \in 2..Len(content) : content[n][1] = "id"
    THEN [some |-> TRUE, data |-> {content[n][2] : n \in 2..Len(content)}]
    ELSE [some |-> FALSE, data |-> {}]

\* toml::from_str::<ItemManifestData>(..).ok(); a repeated key is a TOML error.
FromTomlItemManifest(content) ==
    IF /\ Len(content) >= 1
       /\ content[1] = <<"values">>
       /\ \A n \in 2..Len(content) : content[n][1] = "kv"
       /\ \A m, n \in 2..Len(content) : m # n => content[m][2] # content[n][2]
    THEN [some |-> TRUE,
          data |-> {<<content[n][2], content[n][3]>> : n \in 2..Len(content)}]
    ELSE [some |-> FALSE, data |-> {}]

\* The caller's generator and the binary encoding of its output.
generate_fn(key) == <<"out", key>>
FlexbufferOf(v) == <<<<"val", v>>>>

\* WriteLockedFile::write: rewind, then write the encoding over the old content.
\* The file is not truncated: what lay beyond the encoding stays.
FileWrite(content, enc) == enc \o SubSeq(content, Len(enc) + 1, Len(content))

\* The insertion left out: the identifier is not added to the set.
insert_forgotten(items, id) == items

\* (not the code) an insertion that replaces the set by the new identifier.
insert_replaces(items, id) == {id}
\* data.items.insert(id)
insert(items, id) == items \cup {id}

HasKey(values, k) == \E e \in values : e[1] = k
StatusOf(values, k) == (CHOOSE e \in values : e[1] = k)[2]
\* (not the code) an entry update that forgets the other keys' entries.
SetStatus_clobber(values, k, st) == {<<k, st>>}
SetStatus(values, k, st) == {e \in values : e[1] # k} \cup {<<k, st>>}

----------------------------------------------------------------------------
(* Locks (fs2: flock). *)

\* (not the code) lock_exclusive that is granted without waiting for anybody.
CanLockExclusive_unchecked(path) == TRUE
\* lock_exclusive is granted when no other file object holds a lock on the file.
CanLockExclusive(path) == xlock[path] = {} /\ slock[path] = {}
CanLockShared(path) == xlock[path] = {}

\* (not the code) file objects whose drop does not release their locks.
Dropped_leaks(p) == UNCHANGED <<xlock, slock>>
\* Every file object of caller p is dropped: an early return by `?`.
Dropped(p) ==
    /\ xlock' = [q \in Paths |-> xlock[q] \ {p}]
    /\ slock' = [q \in Paths |-> slock[q] \ {p}]

CallOf(p) == CHOOSE n \in 1..Len(calls) : calls[n].proc = p /\ calls[n].status = "running"

Finish(p, status) ==
    calls' = [calls EXCEPT ![CallOf(p)].status = status,
                           ![CallOf(p)].found = found[p]]

NoArg == [id |-> "a", key |-> "k1"]

ResetLocals(p) ==
    /\ mdata' = [mdata EXCEPT ![p] = {}]
    /\ idata' = [idata EXCEPT ![p] = {}]
    /\ found' = [found EXCEPT ![p] = "none"]
    /\ arg' = [arg EXCEPT ![p] = NoArg]

\* Err(Error::Io(..)) leaves generate.
ReturnErr(p, status) ==
    /\ Dropped(p)
    /\ Finish(p, status)
    /\ ResetLocals(p)
    /\ pc' = [pc EXCEPT ![p] = "idle"]

----------------------------------------------------------------------------
\* A cache root that holds no file yet; bucket directories may exist in it.
InitDisk ==
    /\ dirs \in SUBSET Buckets
    /\ files = [q \in Paths |-> [exists |-> FALSE, content |-> <<>>]]
    /\ xlock = [q \in Paths |-> {}]
    /\ slock = [q \in Paths |-> {}]
    /\ pc = [p \in Procs |-> "new"]
    /\ arg = [p \in Procs |-> NoArg]
    /\ mdata = [p \in Procs |-> {}]
    /\ idata = [p \in Procs |-> {}]
    /\ found = [p \in Procs |-> "none"]
    /\ calls = <<>>
    /\ genRuns = [q \in ValuePaths |-> 0]
    /\ yesSince = [q \in ValuePaths |-> 0]

Init ==
    /\ InitDisk
    /\ callsLeft = MaxCalls
    /\ envLeft = 0

----------------------------------------------------------------------------
(* DiskCache::new *)

\* create_dir_all(root); if Cache.toml does not exist, open it with create(true).
new_create(p) ==
    /\ pc[p] = "new"
    /\ IF files[manifest_path].exists
       THEN /\ pc' = [pc EXCEPT ![p] = "idle"]
            /\ UNCHANGED files
       ELSE /\ pc' = [pc EXCEPT ![p] = "new_lock"]
            /\ files' = [files EXCEPT ![manifest_path].exists = TRUE]
    /\ UNCHANGED <<dirs, xlock, slock, arg, mdata, idata, found, calls,
                   genRuns, yesSince, callsLeft, envLeft>>

\* file.lock_exclusive() blocks; `let _ =` drops the file, and its lock, at once.
new_lock(p) ==
    /\ pc[p] = "new_lock"
    /\ CanLockExclusive(manifest_path)
    /\ pc' = [pc EXCEPT ![p] = "idle"]
    /\ UNCHANGED <<dirs, files, xlock, slock, arg, mdata, idata, found, calls,
                   genRuns, yesSince, callsLeft, envLeft>>

----------------------------------------------------------------------------
(* DiskCache::generate *)

\* A caller calls generate(id, key, generate_fn, panic_error); line 120 opens
\* Cache.toml with create(true).
generate_call(p, id, key) ==
    /\ pc[p] = "idle"
    /\ callsLeft > 0
    /\ callsLeft' = callsLeft - 1
    /\ arg' = [arg EXCEPT ![p] = [id |-> id, key |-> key]]
    /\ calls' = Append(calls, [proc |-> p, id |-> id, key |-> key,
                               status |-> "running", found |-> "none",
                               cell |-> <<>>])
    /\ files' = [files EXCEPT ![manifest_path].exists = TRUE]
    /\ pc' = [pc EXCEPT ![p] = "g_lock"]
    /\ UNCHANGED <<dirs, xlock, slock, mdata, idata, found, genRuns, yesSince,
                   envLeft>>

\* WriteLockedFile::new_toml(&self.manifest_path): lock_exclusive blocks.
generate_lock(p) ==
    /\ pc[p] = "g_lock"
    /\ CanLockExclusive(manifest_path)
    /\ xlock' = [xlock EXCEPT ![manifest_path] = {p}]
    /\ pc' = [pc EXCEPT ![p] = "g_read"]
    /\ UNCHANGED <<dirs, files, slock, arg, mdata, idata, found, calls,
                   genRuns, yesSince, callsLeft, envLeft>>

\* manifest.read_or_initialize(ManifestData::default)
generate_read(p) ==
    /\ pc[p] = "g_read"
    /\ LET content == files[manifest_path].content
           got == FromTomlManifest(content)
       IN  IF ~Utf8(content)
           THEN /\ ReturnErr(p, "InvalidData")
                /\ UNCHANGED files
           ELSE IF got.some
           THEN /\ mdata' = [mdata EXCEPT ![p] = got.data]
                /\ pc' = [pc EXCEPT ![p] = "g_register"]
                /\ UNCHANGED <<files, xlock, slock, arg, idata, found, calls>>
           ELSE /\ \E enc \in TomlManifest({}) :
                      files' = [files EXCEPT ![manifest_path].content =
                                                 FileWrite(content, enc)]
                /\ mdata' = [mdata EXCEPT ![p] = {}]
                /\ pc' = [pc EXCEPT ![p] = "g_register"]
                /\ UNCHANGED <<xlock, slock, arg, idata, found, calls>>
    /\ UNCHANGED <<dirs, genRuns, yesSince, callsLeft, envLeft>>

\* if data.items.contains(&id) { .. } else { data.items.insert(id); manifest.write(&data)?; .. }
generate_register(p) ==
    /\ pc[p] = "g_register"
    /\ LET id == arg[p].id
           content == files[manifest_path].content
       IN  IF id \in mdata[p]
           THEN /\ UNCHANGED <<files, mdata>>
           ELSE /\ mdata' = [mdata EXCEPT ![p] = insert(mdata[p], id)]
                /\ \E enc \in TomlManifest(insert(mdata[p], id)) :
                      files' = [files EXCEPT ![manifest_path].content =
                                                 FileWrite(content, enc)]
    /\ pc' = [pc EXCEPT ![p] = "c_open"]
    /\ UNCHANGED <<dirs, xlock, slock, arg, idata, found, calls, genRuns,
                   yesSince, callsLeft, envLeft>>
----------------------------------------------------------------------------
(* DiskCache::check_existing_item *)

\* WriteLockedFile::new_toml(&item_manifest_path): open with create(true).  No
\* code creates the bucket directory, so the open fails where it does not exist.
check_open(p) ==
    /\ pc[p] = "c_open"
    /\ LET path == item_manifest_path(arg[p].id)
       IN  IF hash_serialize(arg[p].id) \in dirs
           THEN /\ files' = [files EXCEPT ![path].exists = TRUE]
                /\ pc' = [pc EXCEPT ![p] = "c_lock"]
                /\ UNCHANGED <<xlock, slock, arg, mdata, idata, found, calls>>
           ELSE /\ ReturnErr(p, "NotFound")
                /\ UNCHANGED files
    /\ UNCHANGED <<dirs, genRuns, yesSince, callsLeft, envLeft>>

\* file.lock_exclusive() on CacheItem.toml blocks.
check_lock(p) ==
    /\ pc[p] = "c_lock"
    /\ CanLockExclusive(item_manifest_path(arg[p].id))
    /\ xlock' = [xlock EXCEPT ![item_manifest_path(arg[p].id)] = {p}]
    /\ pc' = [pc EXCEPT ![p] = "c_read"]
    /\ UNCHANGED <<dirs, files, slock, arg, mdata, idata, found, calls,
                   genRuns, yesSince, callsLeft, envLeft>>

\* item_manifest.read_or_initialize(ItemManifestData::default)
check_read(p) ==
    /\ pc[p] = "c_read"
    /\ LET path == item_manifest_path(arg[p].id)
           content == files[path].content
           got == FromTomlItemManifest(content)
       IN  IF ~Utf8(content)
           THEN /\ ReturnErr(p, "InvalidData")
                /\ UNCHANGED files
           ELSE IF got.some
           THEN /\ idata' = [idata EXCEPT ![p] = got.data]
                /\ pc' = [pc EXCEPT ![p] = "c_match"]
                /\ UNCHANGED <<files, xlock, slock, arg, mdata, found, calls>>
           ELSE /\ \E enc \in TomlItemManifest({}) :
                      files' = [files EXCEPT ![path].content = FileWrite(content, enc)]
                /\ idata' = [idata EXCEPT ![p] = {}]
                /\ pc' = [pc EXCEPT ![p] = "c_match"]
                /\ UNCHANGED <<xlock, slock, arg, mdata, found, calls>>
    /\ UNCHANGED <<dirs, genRuns, yesSince, callsLeft, envLeft>>

\* match data.values.entry(key_hash), up to the open of the value file:
\* Vacant and Evicting set Loading in `data` and open with create(true);
\* InUse | Loading open read-only, which fails when the file does not exist.
\* (not the code) the Vacant arm writing the manifest before it opens the
\* value file.
ManifestAtOpen_eager(arm, content, enc) ==
    IF arm = "Vacant" THEN FileWrite(content, enc) ELSE content
\* The item manifest when the value file is opened: item_manifest.write(&data)
\* (line 159) comes after WriteLockedFile::new_binary(value_path)? (line 158),
\* so nothing of `data` is on disk yet.
ManifestAtOpen(arm, content, enc) == content

check_match(p) ==
    /\ pc[p] = "c_match"
    /\ LET k == hash_serialize(arg[p].key)
           path == value_path(arg[p].id, arg[p].key)
           ipath == item_manifest_path(arg[p].id)
           arm == IF HasKey(idata[p], k) THEN StatusOf(idata[p], k) ELSE "Vacant"
       IN  IF arm \in {"Vacant", "Evicting"}
           THEN /\ idata' = [idata EXCEPT ![p] = SetStatus(idata[p], k, "Loading")]
                /\ found' = [found EXCEPT ![p] = arm]
                /\ \E enc \in TomlItemManifest(SetStatus(idata[p], k, "Loading")) :
                      files' = [files EXCEPT
                                  ![path].exists = TRUE,
                                  ![ipath].content =
                                      ManifestAtOpen(arm, files[ipath].content, enc)]
                /\ pc' = [pc EXCEPT ![p] = "v_lock_x"]
                /\ UNCHANGED <<xlock, slock, arg, mdata, calls>>
           ELSE IF files[path].exists
           THEN /\ found' = [found EXCEPT ![p] = arm]
                /\ pc' = [pc EXCEPT ![p] = "v_lock_s"]
                /\ UNCHANGED <<files, xlock, slock, arg, mdata, idata, calls>>
           ELSE /\ ReturnErr(p, "NotFound")
                /\ UNCHANGED files
    /\ UNCHANGED <<dirs, genRuns, yesSince, callsLeft, envLeft>>

\* The manifest is written in the Vacant arm only: item_manifest.write(&data)?.
\* The Evicting arm changes `data` and never writes it.
PersistClaim(arm, content, enc) ==
    IF arm = "Vacant" THEN FileWrite(content, enc) ELSE content

\* WriteLockedFile::new_binary(value_path): lock_exclusive blocks; then the
\* Vacant arm writes the manifest; Ok(Generate::Yes(..)).
check_lock_value_exclusive(p) ==
    /\ pc[p] = "v_lock_x"
    /\ LET path == value_path(arg[p].id, arg[p].key)
           ipath == item_manifest_path(arg[p].id)
       IN  /\ CanLockExclusive(path)
           /\ xlock' = [xlock EXCEPT ![path] = {p}]
           /\ \E enc \in TomlItemManifest(idata[p]) :
                 files' = [files EXCEPT ![ipath].content =
                              PersistClaim(found[p], files[ipath].content, enc)]
           /\ yesSince' = [yesSince EXCEPT ![path] = yesSince[path] + 1]
    /\ pc' = [pc EXCEPT ![p] = "c_ret"]
    /\ UNCHANGED <<dirs, slock, arg, mdata, idata, found, calls, genRuns, callsLeft, envLeft>>

\* ReadLockedFile::new_binary(value_path): lock_shared blocks; Ok(Generate::No(..)).
check_lock_value_shared(p) ==
    /\ pc[p] = "v_lock_s"
    /\ LET path == value_path(arg[p].id, arg[p].key)
       IN  /\ CanLockShared(path)
           /\ slock' = [slock EXCEPT ![path] = slock[path] \cup {p}]
    /\ pc' = [pc EXCEPT ![p] = "c_ret"]
    /\ UNCHANGED <<dirs, files, xlock, arg, mdata, idata, found, calls,
                   genRuns, yesSince, callsLeft, envLeft>>

\* check_existing_item returns: item_manifest is dropped, the Generate moves out.
check_return(p) ==
    /\ pc[p] = "c_ret"
    /\ xlock' = [xlock EXCEPT ![item_manifest_path(arg[p].id)] = {}]
    /\ pc' = [pc EXCEPT ![p] = "g_drop"]
    /\ UNCHANGED <<dirs, files, slock, arg, mdata, idata, found, calls,
                   genRuns, yesSince, callsLeft, envLeft>>

----------------------------------------------------------------------------
(* DiskCache::generate, after check_existing_item *)

\* `self.check_existing_item(..)?;` the Generate is a temporary of the statement:
\* its file, and the lock on the value file, are dropped here.  generate_fn is
\* not called and nothing is written to or read from the value file.
generate_drop(p) ==
    /\ pc[p] = "g_drop"
    /\ LET path == value_path(arg[p].id, arg[p].key)
       IN  /\ xlock' = [xlock EXCEPT ![path] = xlock[path] \ {p}]
           /\ slock' = [slock EXCEPT ![path] = slock[path] \ {p}]
    /\ pc' = [pc EXCEPT ![p] = "g_ret"]
    /\ UNCHANGED <<dirs, files, arg, mdata, idata, found, calls, genRuns,
                   yesSince, callsLeft, envLeft>>

\* Ok(CacheHandle(Arc::new(OnceCell::new()))): the handle is empty; `manifest`
\* is dropped on return.
generate_return(p) ==
    /\ pc[p] = "g_ret"
    /\ Dropped(p)
    /\ Finish(p, "Ok")
    /\ ResetLocals(p)
    /\ pc' = [pc EXCEPT ![p] = "idle"]
    /\ UNCHANGED <<dirs, files, genRuns, yesSince, callsLeft, envLeft>>

----------------------------------------------------------------------------
\* A step of caller p inside new or inside a generate call in progress.
Proceed(p) ==
    \/ new_create(p)
    \/ new_lock(p)
    \/ generate_lock(p)
    \/ generate_read(p)
    \/ generate_register(p)
    \/ check_open(p)
    \/ check_lock(p)
    \/ check_read(p)
    \/ check_match(p)
    \/ check_lock_value_exclusive(p)
    \/ check_lock_value_shared(p)
    \/ check_return(p)
    \/ generate_drop(p)
    \/ generate_return(p)

Next ==
    \/ \E p \in Procs, id \in Ids, key \in Keys : generate_call(p, id, key)
    \/ \E p \in Procs : Proceed(p)

Spec == Init /\ [][Next]_vars

----------------------------------------------------------------------------
(* The environment: what the tests of the cache do to the disk by hand,     *)
(* between calls.                                                           *)

Quiet == \A p \in Procs : pc[p] \in {"new", "new_lock", "idle"}

Junk(n) == [m \in 1..n |-> <<"junk">>]

\* A truncated file, text that is no manifest (of any length), bytes that are
\* no UTF-8.
Garbage == {<<>>, <<<<"bad">>>>} \cup {Junk(n) : n \in 1..MaxGarbage}

\* A manifest file is truncated or overwritten with undecodable content.
Corrupt(path, garbage) ==
    /\ Quiet
    /\ envLeft > 0
    /\ files[path].exists
    /\ files[path].content # garbage
    /\ files' = [files EXCEPT ![path].content = garbage]
    /\ yesSince' = [q \in ValuePaths |-> 0]
    /\ envLeft' = envLeft - 1
    /\ UNCHANGED <<dirs, xlock, slock, pc, arg, mdata, idata, found, calls,
                   genRuns, callsLeft>>

\* The status of an entry of an item manifest is set to Evicting.
Evict(id, key) ==
    /\ Quiet
    /\ envLeft > 0
    /\ LET path == item_manifest_path(id)
           got == FromTomlItemManifest(files[path].content)
           k == hash_serialize(key)
       IN  /\ got.some
           /\ HasKey(got.data, k)
           /\ StatusOf(got.data, k) # "Evicting"
           /\ \E enc \in TomlItemManifest(SetStatus(got.data, k, "Evicting")) :
                 files' = [files EXCEPT ![path].content = enc]
    /\ yesSince' = [yesSince EXCEPT ![value_path(id, key)] = 0]
    /\ envLeft' = envLeft - 1
    /\ UNCHANGED <<dirs, xlock, slock, pc, arg, mdata, idata, found, calls,
                   genRuns, callsLeft>>

InitEnv ==
    /\ InitDisk
    /\ callsLeft = MaxEnvCalls
    /\ envLeft = MaxEnv

NextEnv ==
    \/ Next
    \/ \E path \in ManifestPaths, garbage \in Garbage : Corrupt(path, garbage)
    \/ \E id \in Ids, key \in Keys : Evict(id, key)

\* The callers together with the environment.
SpecEnv == InitEnv /\ [][NextEnv]_vars

\* Every caller is a running thread: a call in progress takes its next step
\* whenever that step stays possible.  Nobody is obliged to call generate again.
FairSpec == Init /\ [][Next]_vars /\ \A p \in Procs : WF_vars(Proceed(p))

----------------------------------------------------------------------------
(* Failing I/O: an open, lock, read or write of a generate call returns an  *)
(* error.  A failed write is taken to have written nothing.                 *)

\* The steps of generate that call into the file system.
IoSteps == {"g_lock", "g_read", "g_register", "c_open", "c_lock", "c_read",
            "c_match", "v_lock_x", "v_lock_s"}

\* The file whose read_or_initialize caller p is in.
ReadTarget(p) == IF pc[p] = "g_read" THEN manifest_path
                 ELSE item_manifest_path(arg[p].id)

\* An I/O call whose result is propagated by `?`: Err(Error::Io(..)) leaves
\* generate and every file object of the call is dropped.
io_error(p) ==
    /\ pc[p] \in IoSteps
    /\ envLeft > 0
    /\ envLeft' = envLeft - 1
    /\ ReturnErr(p, "IoError")
    /\ UNCHANGED <<dirs, files, genRuns, yesSince, callsLeft>>

\* read_or_initialize on a file that does not decode: the write of the initial
\* value fails and `self.write(&data).unwrap()` panics; unwinding drops the
\* file objects of the call.
init_write_panics(p) ==
    /\ pc[p] \in {"g_read", "c_read"}
    /\ envLeft > 0
    /\ Utf8(files[ReadTarget(p)].content)
    /\ IF pc[p] = "g_read"
       THEN ~FromTomlManifest(files[ReadTarget(p)].content).some
       ELSE ~FromTomlItemManifest(files[ReadTarget(p)].content).some
    /\ envLeft' = envLeft - 1
    /\ ReturnErr(p, "Panic")
    /\ UNCHANGED <<dirs, files, genRuns, yesSince, callsLeft>>

\* The files of a root in which an earlier process has run DiskCache::new and
\* generate(id, key, ..) to its Ok: the identifier is registered, the key is
\* Loading and its value file is there, empty.
FilesAfterGenerate(id, key) ==
    [q \in Paths |->
        IF q = manifest_path
        THEN [exists |-> TRUE, content |-> CHOOSE enc \in TomlManifest({id}) : TRUE]
        ELSE IF q = item_manifest_path(id)
        THEN [exists |-> TRUE,
              content |-> CHOOSE enc \in TomlItemManifest(
                                     {<<hash_serialize(key), "Loading">>}) : TRUE]
        ELSE IF q = value_path(id, key)
        THEN [exists |-> TRUE, content |-> <<>>]
        ELSE [exists |-> FALSE, content |-> <<>>]]

\* A cache root that holds no file yet, or the root that an earlier
\* generate("a", "k1", ..) has left.
InitFault ==
    /\ \/ /\ dirs \in SUBSET Buckets
          /\ files = [q \in Paths |-> [exists |-> FALSE, content |-> <<>>]]
          /\ yesSince = [q \in ValuePaths |-> 0]
       \/ /\ dirs \in {D \in SUBSET Buckets : hash_serialize("a") \in D}
          /\ files = FilesAfterGenerate("a", "k1")
          /\ yesSince = [q \in ValuePaths |->
                            IF q = value_path("a", "k1") THEN 1 ELSE 0]
    /\ xlock = [q \in Paths |-> {}]
    /\ slock = [q \in Paths |-> {}]
    /\ pc = [p \in Procs |-> "new"]
    /\ arg = [p \in Procs |-> NoArg]
    /\ mdata = [p \in Procs |-> {}]
    /\ idata = [p \in Procs |-> {}]
    /\ found = [p \in Procs |-> "none"]
    /\ calls = <<>>
    /\ genRuns = [q \in ValuePaths |-> 0]
    /\ callsLeft = MaxFaultCalls
    /\ envLeft = MaxFaults

NextFault ==
    \/ Next
    \/ \E p \in Procs : io_error(p)
    \/ \E p \in Procs : init_write_panics(p)

\* generate calls on a file system whose calls can fail.
SpecFault == InitFault /\ [][NextFault]_vars

----------------------------------------------------------------------------
(* ReadLockedFile::new_toml and ReadLockedFile::read_or_initialize, run by a *)
(* caller on the item manifest of an identifier, next to the generate calls  *)
(* of the other callers.                                                     *)

\* ReadLockedFile::new: OpenOptions::new().read(true).open(path) succeeds only
\* where the file exists.
rf_new(p, id) ==
    /\ pc[p] = "idle"
    /\ files[item_manifest_path(id)].exists
    /\ arg' = [arg EXCEPT ![p] = [id |-> id, key |-> NoArg.key]]
    /\ pc' = [pc EXCEPT ![p] = "rf_lock"]
    /\ UNCHANGED <<dirs, files, xlock, slock, mdata, idata, found, calls,
                   genRuns, yesSince, callsLeft, envLeft>>

\* file.lock_shared() of ReadLockedFile::new blocks while another file object
\* holds the exclusive lock, one of the same caller included.  It is reached
\* from the caller (line 239 after 238) and from line 277 of
\* read_or_initialize, where `write_lock` is still alive; after line 277 the
\* file is read again and `write_lock` is dropped at the end of the block.
rf_lock(p) ==
    /\ pc[p] \in {"rf_lock", "rf_relock"}
    /\ LET path == item_manifest_path(arg[p].id)
       IN  /\ CanLockShared(path)
           /\ slock' = [slock EXCEPT ![path] = slock[path] \cup {p}]
           /\ IF pc[p] = "rf_lock"
              THEN /\ pc' = [pc EXCEPT ![p] = "rf_read"]
                   /\ UNCHANGED xlock
              ELSE /\ pc' = [pc EXCEPT ![p] = "rf_done"]
                   /\ xlock' = [xlock EXCEPT ![path] = xlock[path] \ {p}]
    /\ UNCHANGED <<dirs, files, arg, mdata, idata, found, calls, genRuns,
                   yesSince, callsLeft, envLeft>>

\* if let Some(data) = self.read()? { data } else { self.file.unlock()?; ..
rf_read(p) ==
    /\ pc[p] = "rf_read"
    /\ LET path == item_manifest_path(arg[p].id)
           content == files[path].content
       IN  IF ~Utf8(content)
           THEN /\ pc' = [pc EXCEPT ![p] = "idle"]
                /\ slock' = [slock EXCEPT ![path] = slock[path] \ {p}]
                /\ arg' = [arg EXCEPT ![p] = NoArg]
           ELSE IF FromTomlItemManifest(content).some
           THEN /\ pc' = [pc EXCEPT ![p] = "rf_done"]
                /\ UNCHANGED <<slock, arg>>
           ELSE /\ pc' = [pc EXCEPT ![p] = "rf_upgrade"]
                /\ slock' = [slock EXCEPT ![path] = slock[path] \ {p}]
                /\ UNCHANGED arg
    /\ UNCHANGED <<dirs, files, xlock, mdata, idata, found, calls, genRuns,
                   yesSince, callsLeft, envLeft>>

\* let mut write_lock = WriteLockedFile::new(&self.path, self.format)?;
rf_upgrade(p) ==
    /\ pc[p] = "rf_upgrade"
    /\ CanLockExclusive(item_manifest_path(arg[p].id))
    /\ xlock' = [xlock EXCEPT ![item_manifest_path(arg[p].id)] = {p}]
    /\ pc' = [pc EXCEPT ![p] = "rf_recheck"]
    /\ UNCHANGED <<dirs, files, slock, arg, mdata, idata, found, calls,
                   genRuns, yesSince, callsLeft, envLeft>>

\* if let Some(data) = write_lock.read()? { data }: `write_lock` is dropped and
\* `self` was unlocked at line 270.  Otherwise write_lock.write(&initialize())
\* and go on to line 277.
rf_recheck(p) ==
    /\ pc[p] = "rf_recheck"
    /\ LET path == item_manifest_path(arg[p].id)
           content == files[path].content
       IN  IF FromTomlItemManifest(content).some
           THEN /\ xlock' = [xlock EXCEPT ![path] = xlock[path] \ {p}]
                /\ pc' = [pc EXCEPT ![p] = "rf_done"]
                /\ UNCHANGED files
           ELSE /\ \E enc \in TomlItemManifest({}) :
                      files' = [files EXCEPT ![path].content = FileWrite(content, enc)]
                /\ pc' = [pc EXCEPT ![p] = "rf_relock"]
                /\ UNCHANGED xlock
    /\ UNCHANGED <<dirs, slock, arg, mdata, idata, found, calls, genRuns,
                   yesSince, callsLeft, envLeft>>

\* The caller drops the ReadLockedFile that read_or_initialize left it.
rf_drop(p) ==
    /\ pc[p] = "rf_done"
    /\ slock' = [q \in Paths |-> slock[q] \ {p}]
    /\ arg' = [arg EXCEPT ![p] = NoArg]
    /\ pc' = [pc EXCEPT ![p] = "idle"]
    /\ UNCHANGED <<dirs, files, xlock, mdata, idata, found, calls, genRuns,
                   yesSince, callsLeft, envLeft>>

\* A step of caller p inside ReadLockedFile::new / read_or_initialize.
ReadProceed(p) ==
    \/ rf_lock(p)
    \/ rf_read(p)
    \/ rf_upgrade(p)
    \/ rf_recheck(p)
    \/ rf_drop(p)

InitRead ==
    /\ InitDisk
    /\ callsLeft = MaxReadCalls
    /\ envLeft = 0

NextRead ==
    \/ Next
    \/ \E p \in Procs, id \in Ids : rf_new(p, id)
    \/ \E p \in Procs : ReadProceed(p)

\* generate calls together with read_or_initialize on read-locked manifests.
SpecRead == InitRead /\ [][NextRead]_vars

----------------------------------------------------------------------------
(* Notions the claims use. *)

CallsFor(id, key) == {n \in 1..Len(calls) : calls[n].id = id /\ calls[n].key = key}

\* The content of a handle settled with the generator's output.
SettledWith(key) == <<generate_fn(key)>>

\* Caller p leaves generate, with Ok or with Err.
Returns(p) ==
    /\ pc[p] \notin {"new", "new_lock", "idle", "rf_lock", "rf_read", "rf_done"}
    /\ pc'[p] = "idle"

\* The identifiers of the root manifest on disk (none when it does not decode).
RootItems == FromTomlManifest(files[manifest_path].content).data

\* The entries of an item manifest on disk (none when it does not decode).
ItemValues(id) == FromTomlItemManifest(files[item_manifest_path(id)].content).data

\* Caller p is past the registration of its identifier: it is about to open, or
\* has opened, the bucket's item manifest or a value file.
InBucket(p) ==
    pc[p] \in {"c_open", "c_lock", "c_read", "c_match", "v_lock_x", "v_lock_s",
               "c_ret", "g_drop", "g_ret"}

----------------------------------------------------------------------------
(* C1: when callers (each calling once) have called generate for the same   *)
(* (identifier, key) on a cache that was empty, and all have returned, the  *)
(* generator has run exactly once and every caller holds a handle settled   *)
(* with the generator's value.                                              *)
C1_GeneratedExactlyOnce ==
    \A id \in Ids, key \in Keys :
        LET cs == CallsFor(id, key)
        IN  ( /\ cs # {}
              /\ \A n \in cs : calls[n].status # "running"
              /\ \A m, n \in cs : m # n => calls[m].proc # calls[n].proc )
            => /\ genRuns[value_path(id, key)] = 1
               /\ \A n \in cs : /\ calls[n].status = "Ok"
                                /\ calls[n].cell = SettledWith(key)

(* C2: two calls of generate in sequence by one caller, for the same        *)
(* (identifier, key), that both returned a handle: both handles are settled *)
(* with equal outputs and the generator ran at most once.                   *)
C2_SecondCallReads ==
    \A m, n \in 1..Len(calls) :
        ( /\ m < n
          /\ calls[m].proc = calls[n].proc
          /\ calls[m].id = calls[n].id
          /\ calls[m].key = calls[n].key
          /\ calls[m].status = "Ok"
          /\ calls[n].status = "Ok" )
        => /\ calls[m].cell # <<>>
           /\ calls[n].cell = calls[m].cell
           /\ genRuns[value_path(calls[m].id, calls[m].key)] <= 1

(* C3: every handle returned by a successful generate call eventually       *)
(* becomes settled.                                                         *)
HandleReturned(n) == Len(calls) >= n /\ calls[n].status = "Ok"
HandleSettled(n) == Len(calls) >= n /\ calls[n].cell # <<>>
C3_HandleSettles ==
    \A n \in 1..MaxCalls : HandleReturned(n) ~> HandleSettled(n)

(* C4: on a root where the identifier's bucket directory does not exist,    *)
(* new followed by generate returns Ok, with the bucket's item manifest     *)
(* created and the value file claimed.                                      *)
C4_FreshRootSucceeds ==
    \A n \in 1..Len(calls) :
        ( /\ calls[n].status # "running"
          /\ hash_serialize(calls[n].id) \notin dirs )
        => /\ calls[n].status = "Ok"
           /\ files[item_manifest_path(calls[n].id)].exists
           /\ files[value_path(calls[n].id, calls[n].key)].exists

(* C5: when a generate call that found its key Evicting returns, the        *)
(* generator has been run for the key and the key's status in the item      *)
(* manifest on disk is InUse.                                               *)
C5_EvictingReclaimed ==
    [][\A p \in Procs :
          (pc[p] = "g_ret" /\ pc'[p] = "idle" /\ found[p] = "Evicting")
          => LET k == hash_serialize(arg[p].key)
                 values == FromTomlItemManifest(
                               files'[item_manifest_path(arg[p].id)].content).data
             IN  /\ genRuns'[value_path(arg[p].id, arg[p].key)] >= 1
                 /\ HasKey(values, k)
                 /\ StatusOf(values, k) = "InUse"]_vars

(* C6: a generate call never fails on undecodable manifest content, and     *)
(* when it returns the root manifest on disk decodes to a manifest holding  *)
(* the identifier and, if the call returned Ok, the item manifest on disk   *)
(* decodes to a manifest holding the key.                                   *)
C6_CorruptManifestRecovered ==
    [][\A p \in Procs :
          Returns(p)
          => LET c == calls'[CallOf(p)]
                 root == FromTomlManifest(files'[manifest_path].content)
                 item == FromTomlItemManifest(
                             files'[item_manifest_path(c.id)].content)
             IN  /\ c.status # "InvalidData"
                 /\ root.some
                 /\ c.id \in root.data
                 /\ c.status = "Ok"
                      => item.some /\ HasKey(item.data, hash_serialize(c.key))]_vars

(* C7: a caller that found its key Loading or InUse and holds the shared    *)
(* lock on the value file finds the complete generated value in the file.   *)
C7_ReaderSeesCompleteValue ==
    \A p \in Procs :
        LET path == value_path(arg[p].id, arg[p].key)
        IN  (found[p] \in {"Loading", "InUse"} /\ p \in slock[path])
            => files[path].content = FlexbufferOf(generate_fn(arg[p].key))

(* C8: for every key, at most one generate call is told to generate         *)
(* (Generate::Yes) for as long as the environment leaves the key's entry    *)
(* alone; the entry never becomes InUse in between.                         *)
C8_SoleGenerator == \A q \in ValuePaths : yesSince[q] <= 1

(* C9: while nobody holds an item manifest's lock, every key in the         *)
(* manifest on disk has a value file; the file of a Loading key is          *)
(* exclusively locked and the file of an InUse key is not.                  *)
C9_LockStateMatchesStatus ==
    \A id \in Ids :
        xlock[item_manifest_path(id)] = {}
        => \A e \in ItemValues(id) :
              LET path == <<hash_serialize(id), e[1]>>
              IN  /\ files[path].exists
                  /\ e[2] = "Loading" => xlock[path] # {}
                  /\ e[2] = "InUse" => xlock[path] = {}

(* C10: a caller that is about to open, or has opened, its bucket finds its *)
(* identifier in the root manifest on disk; and the identifiers of the root *)
(* manifest on disk change only by a step of generate taken by the caller   *)
(* that holds the root manifest's exclusive lock.                           *)
C10_RegisteredBeforeBucket ==
    /\ [](\A p \in Procs : InBucket(p) => arg[p].id \in RootItems)
    /\ [][RootItems' # RootItems
          => \E p \in Procs : /\ xlock[manifest_path] = {p}
                              /\ pc[p] = "g_register"
                              /\ pc'[p] = "c_open"
                              /\ RootItems' = RootItems \cup {arg[p].id}]_vars

\* A caller has registered a second identifier and is about to lock its bucket.
C10_Witness ==
    \E p \in Procs : pc[p] = "c_lock" /\ arg[p].id = "b" /\ RootItems = {"a", "b"}

(* C11: a step that changes the content of a file (root manifest, item      *)
(* manifest or value file) is taken by a caller that holds the exclusive    *)
(* lock of that file, alone and with no shared holder next to it; so two    *)
(* callers never write the same file at the same time.                      *)
C11_WritersHoldExclusiveLock ==
    [][\A q \in Paths :
          files'[q].content # files[q].content
          => \E p \in Procs : /\ pc'[p] # pc[p]
                              /\ xlock[q] = {p}
                              /\ slock[q] = {}]_vars

\* A caller has written the root manifest under its lock while another caller
\* waits for that lock.
C11_Witness ==
    \E p, q \in Procs : /\ p # q
                        /\ pc[p] = "c_open"
                        /\ xlock[manifest_path] = {p}
                        /\ arg[p].id \in RootItems
                        /\ pc[q] = "g_lock"

\* An earlier generate call has returned Ok for the identifier of p's call.
AlreadyRegistered(p) ==
    \E n \in 1..Len(calls) : calls[n].id = arg[p].id /\ calls[n].status = "Ok"

(* C12: a caller whose identifier was registered by an earlier call does    *)
(* not hold the root manifest's exclusive lock while it acquires or waits   *)
(* for the lock of its item manifest or of a value file.                    *)
C12_RootLockNotKeptForRegisteredId ==
    \A p \in Procs :
        (pc[p] \in {"c_lock", "v_lock_x", "v_lock_s"} /\ AlreadyRegistered(p))
        => p \notin xlock[manifest_path]

\* Caller p is inside a generate call.
InGenerate(p) ==
    pc[p] \in {"g_lock", "g_read", "g_register", "c_open", "c_lock", "c_read",
               "c_match", "v_lock_x", "v_lock_s", "c_ret", "g_drop", "g_ret"}

(* C13: a step of a generate call for (id, k1) leaves alone, for every      *)
(* other key k2 of that identifier, the value file of k2, the locks on it   *)
(* and the entry of k2 in the item manifest on disk.                        *)
C13_OtherKeysUntouched ==
    [][\A p \in Procs, k2 \in Keys :
          (InGenerate(p) /\ pc'[p] # pc[p] /\ k2 # arg[p].key)
          => LET other == value_path(arg[p].id, k2)
                 h == hash_serialize(k2)
                 before == ItemValues(arg[p].id)
                 after == FromTomlItemManifest(files'[item_manifest_path(arg[p].id)].content).data
             IN  /\ files'[other] = files[other]
                 /\ xlock'[other] = xlock[other]
                 /\ slock'[other] = slock[other]
                 /\ HasKey(after, h) = HasKey(before, h)
                 /\ HasKey(before, h) => StatusOf(after, h) = StatusOf(before, h)]_vars

\* A caller has claimed k2 in an item manifest that already held k1 and is
\* about to leave check_existing_item.
C13_Witness ==
    \E p \in Procs : /\ pc[p] = "c_ret"
                     /\ arg[p].key = "k2"
                     /\ HasKey(ItemValues(arg[p].id), hash_serialize("k1"))
                     /\ HasKey(ItemValues(arg[p].id), hash_serialize("k2"))

(* C18: no step removes an identifier from the root manifest on disk, and a *)
(* step of a generate call whose identifier is in the root manifest leaves  *)
(* the manifest's set of identifiers as it is.                              *)
C18_RegistrationIdempotent ==
    [][/\ RootItems \subseteq RootItems'
       /\ \A p \in Procs :
             (InGenerate(p) /\ pc'[p] # pc[p] /\ arg[p].id \in RootItems)
             => RootItems' = RootItems]_vars

\* A second call for a registered identifier is past the registration step.
C18_Witness ==
    \E p \in Procs : /\ pc[p] = "c_open"
                     /\ AlreadyRegistered(p)
                     /\ RootItems = {arg[p].id}

\* Caller p holds a lock on some file under `paths`.
HoldsIn(p, paths) == \E q \in paths : p \in xlock[q] \cup slock[q]

\* Locks are taken in the order root manifest, item manifest, value file.
LockOrder ==
    \A p \in Procs :
        /\ pc[p] = "g_lock" => ~HoldsIn(p, Paths)
        /\ pc[p] = "c_lock" => /\ p \in xlock[manifest_path]
                               /\ ~HoldsIn(p, ValuePaths)
        /\ pc[p] \in {"v_lock_x", "v_lock_s"}
              => /\ p \in xlock[manifest_path]
                 /\ p \in xlock[item_manifest_path(arg[p].id)]

(* C19: locks are taken in the order root manifest, item manifest, value    *)
(* file, and with locks granted fairly every generate call in progress      *)
(* eventually returns: time and again no caller is inside generate (the     *)
(* callers make finitely many calls, so this is the same as every call      *)
(* returning).                                                              *)
C19_EveryCallReturns ==
    /\ []LockOrder
    /\ []<>(\A p \in Procs : ~InGenerate(p))

\* Two callers are inside generate at once, one waiting for the root lock that
\* the other holds together with an item manifest's lock.
C19_Witness ==
    \E p, q \in Procs : /\ pc[p] = "g_lock"
                        /\ pc[q] \in {"v_lock_x", "v_lock_s"}
                        /\ q \in xlock[manifest_path]

(* C17: ReadLockedFile::read_or_initialize on a file without decodable      *)
(* content always returns and leaves its caller with a shared lock: a       *)
(* caller that waits for the new shared lock does not itself hold the       *)
(* exclusive lock that blocks it, and when the operation returns the caller *)
(* holds the shared lock of the file and not its exclusive lock.            *)
C17_ReadOrInitializeReturnsLocked ==
    /\ [](\A p \in Procs :
             pc[p] = "rf_relock" => p \notin xlock[item_manifest_path(arg[p].id)])
    /\ [][\A p \in Procs :
             (pc[p] \in {"rf_read", "rf_recheck", "rf_relock"} /\ pc'[p] = "rf_done")
             => /\ p \in slock'[item_manifest_path(arg[p].id)]
                /\ p \notin xlock'[item_manifest_path(arg[p].id)]]_vars

(* C15: when check_existing_item has decided that its caller must generate  *)
(* (the key was absent or Evicting) and is about to release the item        *)
(* manifest's exclusive lock, the item manifest on disk, where it decodes,  *)
(* records Loading for the key.                                             *)
C15_LoadingOnDiskBeforeUnlock ==
    \A p \in Procs :
        ( /\ pc[p] = "c_ret"
          /\ found[p] \in {"Vacant", "Evicting"}
          /\ FromTomlItemManifest(files[item_manifest_path(arg[p].id)].content).some )
        => /\ HasKey(ItemValues(arg[p].id), hash_serialize(arg[p].key))
           /\ StatusOf(ItemValues(arg[p].id), hash_serialize(arg[p].key)) = "Loading"

(* C16: write(v) on a write-locked manifest replaces the whole content:     *)
(* after a step of a call that wrote the root manifest or its item          *)
(* manifest, whatever the content was before, reading the file gives the    *)
(* value written.                                                           *)
C16_ReadAfterWriteReturnsWritten ==
    [][\A p \in Procs :
          (InGenerate(p) /\ pc'[p] # pc[p])
          => LET ipath == item_manifest_path(arg[p].id)
             IN  /\ files'[manifest_path].content # files[manifest_path].content
                    => FromTomlManifest(files'[manifest_path].content)
                          = [some |-> TRUE, data |-> mdata'[p]]
                 /\ files'[ipath].content # files[ipath].content
                    => FromTomlItemManifest(files'[ipath].content)
                          = [some |-> TRUE, data |-> idata'[p]]]_vars

(* C14: an I/O failure during generate, the failure of the write that       *)
(* initializes an empty or undecodable manifest included, ends the call     *)
(* with an error value: no call ends in a panic.                            *)
C14_FailuresReturnedAsErrors ==
    \A n \in 1..Len(calls) : calls[n].status # "Panic"

\* Caller p is in the arm of check_existing_item that claims an absent key,
\* at the open or at the lock of the value file.
ClaimingAbsent(p) ==
    \/ pc[p] = "c_match" /\ ~HasKey(idata[p], hash_serialize(arg[p].key))
    \/ pc[p] = "v_lock_x" /\ found[p] = "Vacant"

(* C20: when the open or the lock of the value file fails while an absent   *)
(* key is claimed, the item manifest on disk is as the call read it: it     *)
(* decodes and has no entry for the key.                                    *)
C20_FailedClaimLeavesManifest ==
    [][\A p \in Procs :
          ( /\ ClaimingAbsent(p)
            /\ pc'[p] = "idle"
            /\ calls'[CallOf(p)].status = "IoError" )
          => LET after == FromTomlItemManifest(
                              files'[item_manifest_path(arg[p].id)].content)
             IN  /\ after.some
                 /\ after.data = {e \in idata[p] : e[1] # hash_serialize(arg[p].key)}]_vars

\* The lock of the value file has failed in a call that claimed an absent key
\* of a bucket with another key in it: the item manifest holds that other key only.
C20_Witness ==
    \E n \in 1..Len(calls) :
        /\ calls[n].status = "IoError"
        /\ calls[n].found = "Vacant"
        /\ files[value_path(calls[n].id, calls[n].key)].exists
        /\ ItemValues(calls[n].id) # {}
        /\ ~HasKey(ItemValues(calls[n].id), hash_serialize(calls[n].key))
====
